---- MODULE Spec2Model ----
(***************************************************************************)
(* Model of the resilient fetch facade of Groxy:                           *)
(*   - InMemoryCache (src/cache.py): an OrderedDict of (data, expires_at)  *)
(*     entries with a capacity bound and lazy expiry;                      *)
(*   - ProxyManager (src/proxy_manager.py): a proxy list with a healthy    *)
(*     set, an unhealthy set and the time of the last health check.        *)
(* The two components share no state; each has its own specification.      *)
(***************************************************************************)
EXTENDS Integers, Sequences, FiniteSets, TLC

VARIABLES
    cache,        \* InMemoryCache.cache: sequence of entries, oldest first
    max_size,     \* InMemoryCache.max_size
    now,          \* time.time(), in ticks of 1/TicksPerSecond second
    op,           \* the last cache operation: its arguments and its return
    fill,         \* the (key, data) pairs put since the store was last empty,
                  \* while only successful puts of distinct keys were issued
    proxies,              \* ProxyManager.proxies: the configured list
    healthy_proxies,      \* ProxyManager.healthy_proxies
    unhealthy_proxies,    \* ProxyManager.unhealthy_proxies
    proxy_health_checks,  \* ProxyManager.proxy_health_checks: proxy -> time
    check_proxy_health,   \* ProxyManager.check_proxy_health
    use_fake_ua,          \* ProxyManager._use_fake_ua
    user_agents,          \* ProxyManager.user_agents
    clock,                \* datetime.now(), in ticks of thirty minutes
    call,                 \* the last ProxyManager call: its probes and its return
    startup,      \* cache.py module level: the configuration, the outcome of
                  \* the ping and the backend default_cache is bound to
    rstore,       \* the key space of the Redis server: key -> string value
                  \* and expiry time
    rop,          \* the last RedisCache operation: its arguments and outcome
    memo,         \* cache_response: the ttl of the decorator, and for each
                  \* task where it is in wrapper
    mcall,        \* the last step of a wrapper: what it found and returned
    putters,      \* the threads inside InMemoryCache.cache_data: the
                  \* statement each is at, and its arguments
    callers,      \* the threads inside ProxyManager.get_random_proxy: the
                  \* statement each is at, its locals, and what it returned
    app           \* main.py: its module-level cache, and the last request
                  \* answered by an endpoint

cacheVars == <<cache, max_size, now, op, fill>>

poolVars == <<proxies, healthy_proxies, unhealthy_proxies, proxy_health_checks,
              check_proxy_health, use_fake_ua, user_agents, clock, call>>

redisVars == <<startup, rstore, rop>>

memoVars == <<memo, mcall>>

\* What an operation of the in-process store leaves alone.
exceptCache == <<poolVars, redisVars, memoVars, putters, callers, app>>

\* What an operation of the proxy manager leaves alone.
exceptPool == <<cacheVars, redisVars, memoVars, putters, callers, app>>

vars == <<cacheVars, poolVars, redisVars, memoVars, putters, callers, app>>

----------------------------------------------------------------------------
(* Bounds of the model *)

TicksPerSecond == 2
MaxCapacity == 2
MaxTime == 3
MaxTtlSeconds == 1

Keys == 1 .. (MaxCapacity + 1)
Values == {"v1", "v2"}
Defaults == {"None", "dflt"}

\* A ttl argument: an int number of seconds, or a timedelta, whose length is
\* given in ticks so that it can be a fraction of a second, or a float
\* number of seconds that is not whole, its length given in ticks too.
IntTtls == [kind : {"int"}, n : 1 .. MaxTtlSeconds]
TimedeltaTtls == [kind : {"timedelta"}, n : 1 .. (MaxTtlSeconds * TicksPerSecond + 1)]
FloatTtls == [kind : {"float"}, n : {MaxTtlSeconds * TicksPerSecond + 1}]
Ttls == IntTtls \cup TimedeltaTtls \cup FloatTtls

----------------------------------------------------------------------------
(* Pure helpers of InMemoryCache *)

\* int(x) for x = n ticks: truncation toward zero to whole seconds.
IntSeconds(n) ==
    IF n >= 0 THEN n \div TicksPerSecond ELSE -((-n) \div TicksPerSecond)

\* The length the caller asked for, in ticks.
RequestedTicks(ttl) ==
    IF ttl.kind \in {"timedelta", "float"} THEN ttl.n ELSE ttl.n * TicksPerSecond

\* cache_data, "if isinstance(ttl, timedelta): ttl = int(ttl.total_seconds())":
\* the ttl added to time.time(), in ticks.  A number is used as it is.
NormalizeTtl(ttl) ==
    IF ttl.kind = "timedelta" THEN IntSeconds(ttl.n) * TicksPerSecond
    ELSE IF ttl.kind = "float" THEN ttl.n
    ELSE ttl.n * TicksPerSecond

KeysOf(c) == {c[i].key : i \in 1 .. Len(c)}

IndexOf(c, k) == CHOOSE i \in 1 .. Len(c) : c[i].key = k

Lookup(c, k) == c[IndexOf(c, k)]

RemoveAt(c, i) == SubSeq(c, 1, i - 1) \o SubSeq(c, i + 1, Len(c))

\* Mutant of DelItem: the entry is left in the cache.
KeepItem(c, k) == c

\* del self.cache[key]
DelItem(c, k) == RemoveAt(c, IndexOf(c, k))

\* Mutant of SetItem: an overwritten entry keeps its expires_at.
SetItemKeepingExpiry(c, k, data, expires_at) ==
    IF k \in KeysOf(c)
    THEN [c EXCEPT ![IndexOf(c, k)] =
             [key |-> k, data |-> data, expires_at |-> c[IndexOf(c, k)].expires_at]]
    ELSE Append(c, [key |-> k, data |-> data, expires_at |-> expires_at])

\* self.cache[key] = (data, expires_at): an OrderedDict keeps the position of
\* a key it already holds and appends a new key at the end.
SetItem(c, k, data, expires_at) ==
    LET e == [key |-> k, data |-> data, expires_at |-> expires_at]
    IN  IF k \in KeysOf(c)
        THEN [c EXCEPT ![IndexOf(c, k)] = e]
        ELSE Append(c, e)

\* Mutant of IsFull: the capacity test off by one.
IsFullStrict(c, m) == Len(c) > m

\* "if len(self.cache) >= self.max_size"
IsFull(c, m) == Len(c) >= m

\* Mutant of PopItemFirst: popitem() with its default last=True.
PopItemLast(c) == SubSeq(c, 1, Len(c) - 1)

\* self.cache.popitem(last=False): removes the first (oldest-inserted) item.
\* Only used on a non-empty cache; on an empty one it raises KeyError.
PopItemFirst(c) == Tail(c)

\* Mutant of IsExpired: an entry expires at its expires_at already.
IsExpiredInclusive(t, expires_at) == t >= expires_at

\* "if time.time() > expires_at"
IsExpired(t, expires_at) == t > expires_at

\* A cache_data that makes room only for a key the cache does not hold.
CacheDataEvictForNewKey(c, m, t, k, data, ttl) ==
    IF IsFull(c, m) /\ c = <<>>
    THEN [cache |-> c, ret |-> FALSE]
    ELSE LET c1 == IF IsFull(c, m) /\ k \notin KeysOf(c) THEN PopItemFirst(c) ELSE c
         IN  [cache |-> SetItem(c1, k, data, t + NormalizeTtl(ttl)),
              ret |-> TRUE]

\* A cache_data that first sweeps every entry past its expires_at.
CacheDataSweepExpired(c, m, t, k, data, ttl) ==
    LET live == SelectSeq(c, LAMBDA e : ~IsExpired(t, e.expires_at))
    IN  IF IsFull(live, m) /\ live = <<>>
        THEN [cache |-> live, ret |-> FALSE]
        ELSE LET c1 == IF IsFull(live, m) THEN PopItemFirst(live) ELSE live
             IN  [cache |-> SetItem(c1, k, data, t + NormalizeTtl(ttl)),
                  ret |-> TRUE]

\* InMemoryCache.cache_data: the cache afterwards and the value returned.
\* popitem on an empty OrderedDict raises KeyError, which the except clause
\* turns into a return of False with nothing stored.
CacheDataResult(c, m, t, k, data, ttl) ==
    IF IsFull(c, m) /\ c = <<>>
    THEN [cache |-> c, ret |-> FALSE]
    ELSE LET c1 == IF IsFull(c, m) THEN PopItemFirst(c) ELSE c
         IN  [cache |-> SetItem(c1, k, data, t + NormalizeTtl(ttl)),
              ret |-> TRUE]

\* InMemoryCache.get_cached_data: the cache afterwards and the value returned.
GetCachedDataResult(c, t, k, default) ==
    IF k \notin KeysOf(c)
    THEN [cache |-> c, ret |-> default]
    ELSE IF IsExpired(t, Lookup(c, k).expires_at)
         THEN [cache |-> DelItem(c, k), ret |-> default]
         ELSE [cache |-> c, ret |-> Lookup(c, k).data]

\* InMemoryCache.delete_cached_data
DeleteCachedDataResult(c, k) ==
    [cache |-> IF k \in KeysOf(c) THEN DelItem(c, k) ELSE c, ret |-> TRUE]

\* Mutant of ClearCacheResult: only the pattern "*" matches the keys held.
ClearCacheMatching(c, pattern) ==
    [cache |-> IF pattern = "*" THEN <<>> ELSE c, ret |-> TRUE]

\* InMemoryCache.clear_cache: self.cache.clear(), whatever the pattern.
ClearCacheResult(c, pattern) == [cache |-> <<>>, ret |-> TRUE]

----------------------------------------------------------------------------
(* Records of the operations issued, for stating the claims *)

NoTtl == [kind |-> "none", n |-> 0]

NoOp == [name |-> "none", key |-> 0, arg |-> "-", ttl |-> NoTtl, at |-> 0,
         ret |-> "-", size |-> 0, held |-> FALSE, expired |-> FALSE,
         afterPut |-> FALSE, evictedLive |-> FALSE]

\* at: the time of a put.  size: the number of entries when the operation
\* started.  held, expired: whether the key was then in the cache, and past
\* its expires_at.  afterPut: whether the operation right before this one was
\* a successful put of the same key.  evictedLive: whether the operation is a
\* put that has evicted an entry that was not past its expires_at.
OpRecord(name, k, arg, ttl, ret) ==
    [name |-> name, key |-> k, arg |-> arg, ttl |-> ttl,
     at |-> IF name = "put" THEN now ELSE 0, ret |-> ret,
     size |-> Len(cache),
     held |-> k \in KeysOf(cache),
     expired |-> k \in KeysOf(cache) /\ IsExpired(now, Lookup(cache, k).expires_at),
     afterPut |-> op.name = "put" /\ op.key = k /\ op.ret = "True",
     evictedLive |-> /\ name = "put"
                     /\ IsFull(cache, max_size)
                     /\ cache # <<>>
                     /\ ~IsExpired(now, cache[1].expires_at)]

Tainted == <<[key |-> 0, data |-> "-"]>>

----------------------------------------------------------------------------
(* InMemoryCache: state after construction, and its operations *)

CacheInit ==
    /\ cache = <<>>
    /\ max_size \in 0 .. MaxCapacity
    /\ now = 0
    /\ op = NoOp
    /\ fill = <<>>

cache_data(k, data, ttl) ==
    LET r == CacheDataResult(cache, max_size, now, k, data, ttl)
    IN  /\ cache' = r.cache
        /\ op' = OpRecord("put", k, data, ttl, IF r.ret THEN "True" ELSE "False")
        /\ fill' = IF /\ fill # Tainted
                      /\ r.ret
                      /\ \A i \in 1 .. Len(fill) : fill[i].key # k
                   THEN Append(fill, [key |-> k, data |-> data])
                   ELSE Tainted
        /\ UNCHANGED <<max_size, now, exceptCache>>

get_cached_data(k, default) ==
    LET r == GetCachedDataResult(cache, now, k, default)
    IN  /\ cache' = r.cache
        /\ op' = OpRecord("get", k, default, NoTtl, r.ret)
        /\ fill' = IF fill = <<>> THEN <<>> ELSE Tainted
        /\ UNCHANGED <<max_size, now, exceptCache>>

delete_cached_data(k) ==
    LET r == DeleteCachedDataResult(cache, k)
    IN  /\ cache' = r.cache
        /\ op' = OpRecord("delete", k, "-", NoTtl, IF r.ret THEN "True" ELSE "False")
        /\ fill' = IF fill = <<>> THEN <<>> ELSE Tainted
        /\ UNCHANGED <<max_size, now, exceptCache>>

clear_cache(pattern) ==
    LET r == ClearCacheResult(cache, pattern)
    IN  /\ cache' = r.cache
        /\ op' = OpRecord("clear", 0, pattern, NoTtl, IF r.ret THEN "True" ELSE "False")
        /\ fill' = <<>>
        /\ UNCHANGED <<max_size, now, exceptCache>>

\* The passing of time between two operations.
Tick ==
    /\ now < MaxTime
    /\ now' = now + 1
    /\ UNCHANGED <<cache, max_size, op, fill, exceptCache>>

CachePut == \E k \in Keys, data \in Values, ttl \in Ttls : cache_data(k, data, ttl)
CacheGet == \E k \in Keys, default \in Defaults : get_cached_data(k, default)
CacheDelete == \E k \in Keys : delete_cached_data(k)
CacheClear == \E pattern \in {"*", "a*"} : clear_cache(pattern)

CacheNext == CachePut \/ CacheGet \/ CacheDelete \/ CacheClear \/ Tick

----------------------------------------------------------------------------
(* ProxyManager: bounds and inputs *)

MaxProxies == 2
MaxClock == 2

Addrs == {"p1", "p2"}

ProxyLists == UNION {[1 .. n -> Addrs] : n \in 0 .. MaxProxies}

\* What a health probe through a proxy can end in: a status code, or an
\* exception of requests.get (timeout, connection refused).
Outcomes == {"200", "204", "503", "timeout"}

\* "current_time - last_check > timedelta(minutes=30)", in ticks of thirty
\* minutes
RecheckInterval == 1

\* The six fallback User-Agent strings of __init__.
DefaultAgents ==
    <<"Chrome/122 Windows", "Safari/17 Macintosh", "Firefox/123 Windows",
      "Chrome/122 Linux", "Safari/17 iPhone", "Safari/17 iPad">>

\* What fake_useragent's ua.random can return.
GeneratedAgents == {"generated"}

\* The user_agents argument: None or an empty list, or a custom list.
CustomAgentLists == {<<>>, <<"custom-1">>}

Range(f) == {f[i] : i \in DOMAIN f}

None == <<>>

Some(x) == <<x>>

----------------------------------------------------------------------------
(* Pure helpers of ProxyManager *)

\* Mutant of EffectiveAgents: the argument is taken as given.
AgentsAsGiven(custom) == custom

\* __init__: "self.user_agents = user_agents or [...]"
EffectiveAgents(custom) == IF custom = <<>> THEN DefaultAgents ELSE custom

\* get_random_user_agent: the strings it can return; random.choice raises
\* IndexError on an empty list.
AgentChoices(fake, agents) == IF fake THEN GeneratedAgents ELSE Range(agents)

\* _check_proxy_health: "return response.status_code == 200", and False on
\* any exception.
ProbeSucceeds(outcome) == outcome = "200"

\* The probes of one call, in order: probes[i] is the proxy probed and the
\* outcome of the probe.
ProbeLog(list, outs) ==
    [i \in 1 .. Len(list) |-> [proxy |-> list[i], outcome |-> outs[i]]]

\* _check_all_proxies: probes every element of the list in turn; a proxy
\* whose probe succeeds is added to the healthy set and its check time set,
\* one whose probe fails is added to the unhealthy set.  Nothing is removed
\* from either set.
CheckAllProxies(list, outs, healthy, unhealthy, checks, t) ==
    LET good == {list[i] : i \in {j \in 1 .. Len(list) : ProbeSucceeds(outs[j])}}
        bad == {list[i] : i \in {j \in 1 .. Len(list) : ~ProbeSucceeds(outs[j])}}
    IN  [healthy |-> healthy \cup good,
         unhealthy |-> unhealthy \cup bad,
         checks |-> [p \in (DOMAIN checks) \cup good |->
                        IF p \in good THEN t ELSE checks[p]]]

\* Mutant of DueForRecheck: a proxy is due already when its last check is
\* exactly the interval old.
DueForRecheckInclusive(unhealthy, checks, t) ==
    {p \in unhealthy : p \notin DOMAIN checks \/ t - checks[p] >= RecheckInterval}

\* get_random_proxy: "if not last_check or current_time - last_check >
\* timedelta(minutes=30)" over the unhealthy set.
DueForRecheck(unhealthy, checks, t) ==
    {p \in unhealthy : p \notin DOMAIN checks \/ t - checks[p] > RecheckInterval}

\* Mutant of Recheck: a proxy whose probe succeeds is not moved.
RecheckWithoutPromotion(healthy, unhealthy, checks, t, outs) ==
    LET due == DOMAIN outs
    IN  [healthy |-> healthy,
         unhealthy |-> unhealthy,
         checks |-> [p \in (DOMAIN checks) \cup due |->
                        IF p \in due THEN t ELSE checks[p]]]

\* get_random_proxy, the recheck loop: every due proxy is probed once; one
\* whose probe succeeds moves to the healthy set; the check time of every
\* probed proxy becomes current_time.
Recheck(healthy, unhealthy, checks, t, outs) ==
    LET due == DOMAIN outs
        promoted == {p \in due : ProbeSucceeds(outs[p])}
    IN  [healthy |-> healthy \cup promoted,
         unhealthy |-> unhealthy \ promoted,
         checks |-> [p \in (DOMAIN checks) \cup due |->
                        IF p \in due THEN t ELSE checks[p]]]

\* Mutant of ProxyCandidates: no fallback to the whole list.
ProxyCandidatesHealthyOnly(list, healthy) == healthy

\* get_random_proxy: the proxies random.choice picks from: the healthy set
\* if it is not empty, else the whole list.
ProxyCandidates(list, healthy) ==
    IF healthy # {} THEN healthy ELSE Range(list)

ProxyDict(p) == [http |-> p, https |-> p]

\* Mutant of ProxyReturn: no proxy is ever returned.
ProxyReturnNone(candidates, pick) == None

\* Mutant of ProxyReturn: a dict is returned also when there is no proxy.
ProxyReturnAlwaysDict(candidates, pick) == Some(ProxyDict(pick))

\* get_random_proxy: the value returned, None when there is no candidate.
ProxyReturn(candidates, pick) ==
    IF candidates = {} THEN None ELSE Some(ProxyDict(pick))

\* get_request_metadata: the headers dict.
Headers(ua) ==
    ("User-Agent" :> ua)
    @@ ("Accept" :> "text/html,application/xhtml+xml,application/xml;q=0.9,image/avif,image/webp,*/*;q=0.8")
    @@ ("Accept-Language" :> "en-US,en;q=0.5")
    @@ ("Accept-Encoding" :> "gzip, deflate, br")
    @@ ("DNT" :> "1")
    @@ ("Connection" :> "keep-alive")
    @@ ("Upgrade-Insecure-Requests" :> "1")
    @@ ("Sec-Fetch-Dest" :> "document")
    @@ ("Sec-Fetch-Mode" :> "navigate")
    @@ ("Sec-Fetch-Site" :> "none")
    @@ ("Sec-Fetch-User" :> "?1")
    @@ ("Pragma" :> "no-cache")
    @@ ("Cache-Control" :> "no-cache")

RECURSIVE SetToSeq(_)
\* list(self.unhealthy_proxies): the elements of a set in some order.
SetToSeq(S) ==
    IF S = {} THEN <<>>
    ELSE LET x == CHOOSE y \in S : TRUE IN <<x>> \o SetToSeq(S \ {x})

NoChecks == [p \in {} |-> 0]

----------------------------------------------------------------------------
(* ProxyManager: state after construction, and its operations *)

\* name: "init", "next" (get_request_metadata) or "reconfigure"; status: "ok",
\* or the exception raised to the caller; bundle: the dict returned, if any;
\* probes: the health probes made during the call, in order.
CallRecord(name, status, bundle, probes) ==
    [name |-> name, status |-> status, bundle |-> bundle, probes |-> probes]

\* ProxyManager.__init__
PoolInit ==
    \E list \in ProxyLists, chk \in BOOLEAN, fake \in BOOLEAN,
       custom \in CustomAgentLists :
        \E outs \in [1 .. (IF chk THEN Len(list) ELSE 0) -> Outcomes] :
            LET r == IF list # <<>> /\ chk
                     THEN CheckAllProxies(list, outs, {}, {}, NoChecks, 0)
                     ELSE [healthy |-> {}, unhealthy |-> {}, checks |-> NoChecks]
            IN  /\ proxies = list
                /\ healthy_proxies = r.healthy
                /\ unhealthy_proxies = r.unhealthy
                /\ proxy_health_checks = r.checks
                /\ check_proxy_health = chk
                /\ use_fake_ua = fake
                /\ user_agents = EffectiveAgents(custom)
                /\ clock = 0
                /\ call = CallRecord("init", "ok", None,
                                     IF chk THEN ProbeLog(list, outs) ELSE <<>>)

\* get_request_metadata: the headers with a random User-Agent, then
\* get_random_proxy: nothing on an empty list, else the recheck of the due
\* unhealthy proxies and the choice among the candidates.
get_request_metadata ==
    LET agents == AgentChoices(use_fake_ua, user_agents)
        due == IF proxies = <<>> THEN {}
               ELSE DueForRecheck(unhealthy_proxies, proxy_health_checks, clock)
    IN  IF agents = {}
        THEN /\ call' = CallRecord("next", "IndexError", None, <<>>)
             /\ UNCHANGED <<proxies, healthy_proxies, unhealthy_proxies,
                            proxy_health_checks, check_proxy_health,
                            use_fake_ua, user_agents, clock, exceptPool>>
        ELSE \E ua \in agents, outs \in [due -> Outcomes] :
            LET r == IF proxies = <<>>
                     THEN [healthy |-> healthy_proxies,
                           unhealthy |-> unhealthy_proxies,
                           checks |-> proxy_health_checks]
                     ELSE Recheck(healthy_proxies, unhealthy_proxies,
                                  proxy_health_checks, clock, outs)
                cands == ProxyCandidates(proxies, r.healthy)
                order == SetToSeq(due)
            IN  \E pick \in (IF cands = {} THEN {"-"} ELSE cands) :
                /\ healthy_proxies' = r.healthy
                /\ unhealthy_proxies' = r.unhealthy
                /\ proxy_health_checks' = r.checks
                /\ call' = CallRecord("next", "ok",
                               Some([headers |-> Headers(ua),
                                     proxies |-> ProxyReturn(cands, pick)]),
                               [i \in 1 .. Len(order) |->
                                   [proxy |-> order[i], outcome |-> outs[order[i]]]])
                /\ UNCHANGED <<proxies, check_proxy_health, use_fake_ua,
                               user_agents, clock, exceptPool>>

\* scrape_dispensary: "if proxies: proxy_manager.proxies = proxies", then
\* _check_all_proxies if check_proxy_health is set.
reconfigure(list) ==
    /\ list # <<>>
    /\ \E outs \in [1 .. (IF check_proxy_health THEN Len(list) ELSE 0) -> Outcomes] :
        LET r == IF check_proxy_health
                 THEN CheckAllProxies(list, outs, healthy_proxies,
                                      unhealthy_proxies, proxy_health_checks, clock)
                 ELSE [healthy |-> healthy_proxies,
                       unhealthy |-> unhealthy_proxies,
                       checks |-> proxy_health_checks]
        IN  /\ proxies' = list
            /\ healthy_proxies' = r.healthy
            /\ unhealthy_proxies' = r.unhealthy
            /\ proxy_health_checks' = r.checks
            /\ call' = CallRecord("reconfigure", "ok", None,
                                  IF check_proxy_health THEN ProbeLog(list, outs)
                                  ELSE <<>>)
            /\ UNCHANGED <<check_proxy_health, use_fake_ua, user_agents, clock,
                           exceptPool>>

PoolReconfigure == \E list \in ProxyLists : reconfigure(list)

\* The passing of time between two calls.
ClockTick ==
    /\ clock < MaxClock
    /\ clock' = clock + 1
    /\ UNCHANGED <<proxies, healthy_proxies, unhealthy_proxies,
                   proxy_health_checks, check_proxy_health, use_fake_ua,
                   user_agents, call, exceptPool>>

PoolNext == get_request_metadata \/ PoolReconfigure \/ ClockTick

\* The passing of time once the clock of the model stands at MaxClock: only
\* the age of a check matters to the code (current_time - last_check), so
\* one more tick is the same as every recorded check lying one tick further
\* back; an age beyond MaxClock, which is above the recheck interval, is
\* kept as MaxClock.
ClockShift ==
    /\ clock = MaxClock
    /\ proxy_health_checks' =
          [p \in DOMAIN proxy_health_checks |->
              IF proxy_health_checks[p] > 0 THEN proxy_health_checks[p] - 1 ELSE 0]
    /\ UNCHANGED <<proxies, healthy_proxies, unhealthy_proxies,
                   check_proxy_health, use_fake_ua, user_agents, clock, call,
                   exceptPool>>

\* A pool that is given its list at construction and then only asked for
\* proxies, for as long as one likes.
PoolLiveNext == get_request_metadata \/ ClockTick \/ ClockShift

\* The module-level instance of proxy_manager.py: no proxy, nothing probed.
PoolIdle ==
    /\ proxies = <<>>
    /\ healthy_proxies = {}
    /\ unhealthy_proxies = {}
    /\ proxy_health_checks = NoChecks
    /\ check_proxy_health = TRUE
    /\ use_fake_ua = TRUE
    /\ user_agents = DefaultAgents
    /\ clock = 0
    /\ call = CallRecord("init", "ok", None, <<>>)

\* A cache nothing has been put into.
CacheIdle ==
    /\ cache = <<>>
    /\ max_size = 0
    /\ now = 0
    /\ op = NoOp
    /\ fill = <<>>

----------------------------------------------------------------------------
(* RedisCache: inputs, and the libraries it calls *)

\* Keys and glob patterns are strings, modelled as sequences of characters.
RedisKeys == {<<"a", "1">>, <<"b", "1">>}

RedisPatterns == {<<"*">>, <<"a", "*">>}

\* Python values handed to cache_data: a string, and an object json cannot
\* serialize (a set, a datetime, a pydantic model).
RedisData == {"v1", "unserializable"}

\* How a command sent to the server ends: a reply, or an exception of the
\* client (server gone, connection reset).
NetOutcomes == {"ok", "ConnectionError"}

\* How the ping of the constructor ends: PONG, connection refused, no answer
\* within socket_timeout, an error reply of the server.
PingOutcomes == {"PONG", "ConnectionError", "TimeoutError", "ResponseError"}

\* The exception classes of redis-py used here; all derive from RedisError,
\* which does not derive from ConnectionError.
RedisErrors == {"ConnectionError", "TimeoutError", "ResponseError"}

\* "except redis.ConnectionError"
IsConnectionError(e) == e = "ConnectionError"

\* "except redis.RedisError"
IsRedisError(e) == e \in RedisErrors

\* "except (redis.RedisError, json.JSONDecodeError)"
IsRedisOrJsonDecodeError(e) == IsRedisError(e) \/ e = "JSONDecodeError"

\* Values another client of the same server has stored: text that is not
\* JSON, and bytes that are not UTF-8.
ForeignRaw == {"{oops", "<ff>"}

\* json.dumps(data): the JSON text, or TypeError for an object that is not
\* JSON serializable.
JsonDumps(data) ==
    CASE data = "v1" -> [raised |-> "none", text |-> "\"v1\""]
      [] data = "v2" -> [raised |-> "none", text |-> "\"v2\""]
      [] data = "None" -> [raised |-> "none", text |-> "null"]
      [] OTHER -> [raised |-> "TypeError", text |-> "-"]

\* json.loads(text): the value, or JSONDecodeError for text that is not JSON.
JsonLoads(text) ==
    CASE text = "\"v1\"" -> [raised |-> "none", value |-> "v1"]
      [] text = "\"v2\"" -> [raised |-> "none", value |-> "v2"]
      [] text = "null" -> [raised |-> "none", value |-> "None"]
      [] OTHER -> [raised |-> "JSONDecodeError", value |-> "-"]

\* decode_responses=True: the client decodes every reply as UTF-8, strictly.
DecodeResponse(raw) ==
    IF raw = "<ff>"
    THEN [raised |-> "UnicodeDecodeError", text |-> "-"]
    ELSE [raised |-> "none", text |-> raw]

\* A key without expiry.
NoExpiry == -1

EmptyStore == [k \in {} |-> [raw |-> "-", expires_at |-> NoExpiry]]

\* The keys the server holds at time t: it drops a key once its expiry has
\* passed.
LiveKeys(store, t) ==
    {k \in DOMAIN store :
        store[k].expires_at = NoExpiry \/ ~IsExpired(t, store[k].expires_at)}

DropKeys(store, ks) == [k \in (DOMAIN store) \ ks |-> store[k]]

StoreKey(store, k, raw, expires_at) ==
    [j \in (DOMAIN store) \cup {k} |->
        IF j = k THEN [raw |-> raw, expires_at |-> expires_at] ELSE store[j]]

\* KEYS pattern: glob-style matching, "*" for any run of characters.
RECURSIVE GlobMatch(_, _)
GlobMatch(p, s) ==
    IF p = <<>> THEN s = <<>>
    ELSE IF Head(p) = "*"
         THEN GlobMatch(Tail(p), s) \/ (s # <<>> /\ GlobMatch(p, Tail(s)))
         ELSE s # <<>> /\ Head(s) = Head(p) /\ GlobMatch(Tail(p), Tail(s))

\* redis_client.setex(key, ttl, value): an expire time that is not positive,
\* or not an integer, is answered with an error reply (ResponseError).
Setex(store, t, k, ttlTicks, text, net) ==
    IF net # "ok" THEN [store |-> store, raised |-> net]
    ELSE IF ttlTicks <= 0 \/ ttlTicks % TicksPerSecond # 0
         THEN [store |-> store, raised |-> "ResponseError"]
    ELSE [store |-> StoreKey(DropKeys(store, (DOMAIN store) \ LiveKeys(store, t)),
                             k, text, t + ttlTicks),
          raised |-> "none"]

\* RedisCache.cache_data: the key space afterwards, the value returned and
\* the exception that leaves the method ("none" when it returns).
RedisCacheDataResult(store, t, k, data, ttl, net) ==
    LET d == JsonDumps(data)
        r == Setex(store, t, k, NormalizeTtl(ttl), d.text, net)
    IN  IF d.raised # "none"
        THEN IF IsRedisOrJsonDecodeError(d.raised)
             THEN [store |-> store, ret |-> "False", raised |-> "none"]
             ELSE [store |-> store, ret |-> "-", raised |-> d.raised]
        ELSE IF r.raised # "none"
             THEN [store |-> store, ret |-> "False", raised |-> "none"]
             ELSE [store |-> r.store, ret |-> "True", raised |-> "none"]

\* An exception raised inside the try block of get_cached_data: the default
\* is returned if the except clause names it, else it leaves the method.
GetFailure(store, default, e) ==
    IF IsRedisOrJsonDecodeError(e)
    THEN [store |-> store, ret |-> default, raised |-> "none"]
    ELSE [store |-> store, ret |-> "-", raised |-> e]

\* RedisCache.get_cached_data
RedisGetCachedDataResult(store, t, k, default, net) ==
    IF net # "ok" THEN GetFailure(store, default, net)
    ELSE IF k \notin LiveKeys(store, t)
         THEN [store |-> store, ret |-> default, raised |-> "none"]
    ELSE LET u == DecodeResponse(store[k].raw)
             j == JsonLoads(u.text)
         IN  IF u.raised # "none" THEN GetFailure(store, default, u.raised)
             ELSE IF j.raised # "none" THEN GetFailure(store, default, j.raised)
             ELSE [store |-> store, ret |-> j.value, raised |-> "none"]

\* RedisCache.delete_cached_data: DEL replies with the number of keys it has
\* removed, and bool() of that number is returned.
RedisDeleteCachedDataResult(store, t, k, net) ==
    IF net # "ok" THEN [store |-> store, ret |-> "False", raised |-> "none"]
    ELSE LET removed == IF k \in LiveKeys(store, t) THEN 1 ELSE 0
         IN  [store |-> DropKeys(store, {k}),
              ret |-> IF removed # 0 THEN "True" ELSE "False",
              raised |-> "none"]

\* A clear_cache that deletes every key of the server, whatever the pattern.
RedisClearEverything(store, t, pattern, netKeys, netDel) ==
    LET keys == LiveKeys(store, t)
    IN  IF netKeys # "ok"
        THEN [store |-> store, ret |-> "False", raised |-> "none"]
        ELSE IF keys = {}
             THEN [store |-> store, ret |-> "True", raised |-> "none"]
        ELSE IF netDel # "ok"
             THEN [store |-> store, ret |-> "False", raised |-> "none"]
        ELSE [store |-> DropKeys(store, keys),
              ret |-> IF Cardinality(keys) # 0 THEN "True" ELSE "False",
              raised |-> "none"]

\* RedisCache.clear_cache: KEYS pattern, then DEL of the keys found.
RedisClearCacheResult(store, t, pattern, netKeys, netDel) ==
    LET keys == {k \in LiveKeys(store, t) : GlobMatch(pattern, k)}
    IN  IF netKeys # "ok"
        THEN [store |-> store, ret |-> "False", raised |-> "none"]
        ELSE IF keys = {}
             THEN [store |-> store, ret |-> "True", raised |-> "none"]
        ELSE IF netDel # "ok"
             THEN [store |-> store, ret |-> "False", raised |-> "none"]
        ELSE [store |-> DropKeys(store, keys),
              ret |-> IF Cardinality(keys) # 0 THEN "True" ELSE "False",
              raised |-> "none"]

\* RedisCache.__init__: the exception that leaves the constructor ("none"
\* when the ping is answered).  The except clause logs and raises again.
RedisCacheConstruct(ping) == IF ping = "PONG" THEN "none" ELSE ping

\* Module level of cache.py: the backend default_cache is bound to, or the
\* exception that ends the import of the module.
SelectBackend(use_redis, ping) ==
    IF ~use_redis
    THEN [use_redis |-> FALSE, attempted |-> FALSE, ping |-> "-",
          backend |-> "memory", raised |-> "none"]
    ELSE LET e == RedisCacheConstruct(ping)
         IN  [use_redis |-> TRUE, attempted |-> TRUE, ping |-> ping,
              backend |-> IF e = "none" THEN "redis"
                          ELSE IF IsConnectionError(e) THEN "memory"
                          ELSE "none",
              raised |-> IF e = "none" \/ IsConnectionError(e) THEN "none" ELSE e]

----------------------------------------------------------------------------
(* RedisCache: state after the import of cache.py, and its operations *)

NoRedisOp == [name |-> "none", key |-> <<>>, arg |-> "-", net |-> "ok",
              ret |-> "-", raised |-> "none", held |-> FALSE,
              changed |-> FALSE]

\* held: whether the server held the key (for clear: some matching key) when
\* the operation started.  changed: whether it has changed the key space.
RedisOpRecord(name, k, arg, net, r, held) ==
    [name |-> name, key |-> k, arg |-> arg, net |-> net, ret |-> r.ret,
     raised |-> r.raised, held |-> held, changed |-> r.store # rstore]

RedisInit ==
    /\ \E use_redis \in BOOLEAN, ping \in PingOutcomes :
           startup = SelectBackend(use_redis, ping)
    /\ rstore = EmptyStore
    /\ rop = NoRedisOp

redis_cache_data(k, data, ttl, net) ==
    LET r == RedisCacheDataResult(rstore, now, k, data, ttl, net)
    IN  /\ startup.backend = "redis"
        /\ rstore' = r.store
        /\ rop' = RedisOpRecord("put", k, data, net, r, k \in LiveKeys(rstore, now))
        /\ UNCHANGED <<startup, cacheVars, poolVars, memoVars, putters, callers, app>>

redis_get_cached_data(k, default, net) ==
    LET r == RedisGetCachedDataResult(rstore, now, k, default, net)
    IN  /\ startup.backend = "redis"
        /\ rstore' = r.store
        /\ rop' = RedisOpRecord("get", k, default, net, r, k \in LiveKeys(rstore, now))
        /\ UNCHANGED <<startup, cacheVars, poolVars, memoVars, putters, callers, app>>

redis_delete_cached_data(k, net) ==
    LET r == RedisDeleteCachedDataResult(rstore, now, k, net)
    IN  /\ startup.backend = "redis"
        /\ rstore' = r.store
        /\ rop' = RedisOpRecord("delete", k, "-", net, r, k \in LiveKeys(rstore, now))
        /\ UNCHANGED <<startup, cacheVars, poolVars, memoVars, putters, callers, app>>

redis_clear_cache(pattern, netKeys, netDel) ==
    LET r == RedisClearCacheResult(rstore, now, pattern, netKeys, netDel)
    IN  /\ startup.backend = "redis"
        /\ rstore' = r.store
        /\ rop' = RedisOpRecord("clear", pattern, "-",
                                IF netKeys # "ok" THEN netKeys ELSE netDel, r,
                                \E k \in LiveKeys(rstore, now) : GlobMatch(pattern, k))
        /\ UNCHANGED <<startup, cacheVars, poolVars, memoVars, putters, callers, app>>

\* Another client of the same server stores a value under a key.
foreign_set(k, raw) ==
    /\ startup.backend = "redis"
    /\ rstore' = StoreKey(rstore, k, raw, NoExpiry)
    /\ rop' = [NoRedisOp EXCEPT !.name = "foreign", !.key = k, !.arg = raw,
                                !.changed = TRUE]
    /\ UNCHANGED <<startup, cacheVars, poolVars, memoVars, putters, callers, app>>

RedisPut ==
    \E k \in RedisKeys, data \in RedisData, ttl \in Ttls, net \in NetOutcomes :
        redis_cache_data(k, data, ttl, net)
RedisGet ==
    \E k \in RedisKeys, default \in Defaults, net \in NetOutcomes :
        redis_get_cached_data(k, default, net)
RedisDelete ==
    \E k \in RedisKeys, net \in NetOutcomes : redis_delete_cached_data(k, net)
RedisClear ==
    \E pattern \in RedisPatterns, netKeys \in NetOutcomes, netDel \in NetOutcomes :
        redis_clear_cache(pattern, netKeys, netDel)
ForeignSet == \E k \in RedisKeys, raw \in ForeignRaw : foreign_set(k, raw)

RedisNext == RedisPut \/ RedisGet \/ RedisDelete \/ RedisClear \/ ForeignSet \/ Tick

\* Redis not configured, nothing stored.
RedisIdle ==
    /\ startup = SelectBackend(FALSE, "PONG")
    /\ rstore = EmptyStore
    /\ rop = NoRedisOp

----------------------------------------------------------------------------
(* cache_response: the memoizing decorator, on the in-process default_cache *)

\* InMemoryCache(): max_size of the default_cache.
DefaultMaxSize == 1000

\* The asyncio tasks that run the wrapped endpoint.
Tasks == {1, 2}

\* The arguments of a call to the wrapped function.
MemoArgs == {1, 2}

\* What the wrapped function can return.
ComputeResults == Values \cup {"None"}

\* cache_key = f"{func.__name__}:{hash(str(args) + str(kwargs))}": one key
\* per argument list; hash is taken not to collide on the lists used here.
CacheKey(args) == args

\* "if cached_response is not None"
IsCached(cached_response) == cached_response # "None"

\* Mutant of StoreResponse: a response is stored only if the key holds none.
StoreResponseIfAbsent(c, m, t, k, response, ttl) ==
    IF k \in KeysOf(c) THEN c ELSE CacheDataResult(c, m, t, k, response, ttl).cache

\* "default_cache.cache_data(cache_key, response, ttl)": the cache afterwards.
StoreResponse(c, m, t, k, response, ttl) ==
    CacheDataResult(c, m, t, k, response, ttl).cache

\* Whether the cache holds an entry for k that has not expired at time t.
HoldsFresh(c, t, k) ==
    k \in KeysOf(c) /\ ~IsExpired(t, Lookup(c, k).expires_at)

IdleTask == [pc |-> "idle", key |-> 0, overlapped |-> FALSE]

NoMemo == [ttl |-> NoTtl, tasks |-> [t \in Tasks |-> IdleTask]]

NoMemoCall == [name |-> "none", task |-> 0, key |-> 0, held |-> FALSE,
               stored |-> "-", invoked |-> FALSE, ret |-> "-",
               overlapped |-> FALSE, raised |-> "none"]

\* The tasks suspended inside the wrapped function called for key k.
InFlight(k) ==
    {t \in Tasks : memo.tasks[t].pc = "awaiting" /\ memo.tasks[t].key = k}

MemoInit ==
    /\ cache = <<>>
    /\ max_size = DefaultMaxSize
    /\ now = 0
    /\ op = NoOp
    /\ fill = <<>>
    /\ \E ttl \in Ttls : memo = [NoMemo EXCEPT !.ttl = ttl]
    /\ mcall = NoMemoCall

\* wrapper, up to "response = await func(*args, **kwargs)": the lookup, and
\* either the return of the cached response or the call of the wrapped
\* function, at which the task is suspended.  No other task runs in between.
wrapper_begin(t, args) ==
    LET k == CacheKey(args)
        r == GetCachedDataResult(cache, now, k, "None")
    IN  /\ memo.tasks[t].pc = "idle"
        /\ cache' = r.cache
        /\ memo' = IF IsCached(r.ret) THEN memo
                   ELSE [memo EXCEPT !.tasks[t] =
                            [pc |-> "awaiting", key |-> k,
                             overlapped |-> InFlight(k) # {}]]
        /\ mcall' = [name |-> "begin", task |-> t, key |-> k,
                     held |-> HoldsFresh(cache, now, k),
                     stored |-> IF HoldsFresh(cache, now, k)
                                THEN Lookup(cache, k).data ELSE "-",
                     invoked |-> ~IsCached(r.ret),
                     ret |-> IF IsCached(r.ret) THEN r.ret ELSE "-",
                     overlapped |-> InFlight(k) # {}, raised |-> "none"]
        /\ UNCHANGED <<max_size, now, op, fill, poolVars, redisVars, putters, callers, app>>

\* wrapper, from the return of the wrapped function: the response is stored
\* and returned.
wrapper_finish(t, response) ==
    LET k == memo.tasks[t].key
    IN  /\ memo.tasks[t].pc = "awaiting"
        /\ cache' = StoreResponse(cache, max_size, now, k, response, memo.ttl)
        /\ memo' = [memo EXCEPT !.tasks[t] = IdleTask]
        /\ mcall' = [name |-> "finish", task |-> t, key |-> k,
                     held |-> HoldsFresh(cache, now, k),
                     stored |-> IF HoldsFresh(cache, now, k)
                                THEN Lookup(cache, k).data ELSE "-",
                     invoked |-> FALSE,
                     ret |-> response,
                     overlapped |-> memo.tasks[t].overlapped, raised |-> "none"]
        /\ UNCHANGED <<max_size, now, op, fill, poolVars, redisVars, putters, callers, app>>

WrapperBegin == \E t \in Tasks, args \in MemoArgs : wrapper_begin(t, args)
WrapperFinish == \E t \in Tasks, response \in ComputeResults : wrapper_finish(t, response)

MemoNext == WrapperBegin \/ WrapperFinish \/ Tick

\* No decorated function.
MemoIdle ==
    /\ memo = NoMemo
    /\ mcall = NoMemoCall

----------------------------------------------------------------------------
(* InMemoryCache.cache_data called from concurrent threads, statement by
   statement: the code takes no lock, so the threads interleave between the
   capacity test, the eviction and the insertion *)

Threads == {1, 2}

\* key, data, ttl, default: the arguments of the call; data and expires_at
\* are also the locals of get_cached_data; ret: what the last call returned.
IdlePutter == [pc |-> "idle", key |-> 0, data |-> "-", ttl |-> NoTtl,
               default |-> "-", expires_at |-> 0, ret |-> "-"]

PutInit ==
    /\ cache = <<>>
    /\ max_size \in 0 .. MaxCapacity
    /\ now = 0
    /\ op = NoOp
    /\ fill = <<>>
    /\ putters = [t \in Threads |-> IdlePutter]

\* "if len(self.cache) >= self.max_size": the thread goes on to the eviction
\* or straight to the insertion.
put_check(t, k, data, ttl) ==
    /\ putters[t].pc = "idle"
    /\ putters' = [putters EXCEPT ![t] =
                      [IdlePutter EXCEPT
                          !.pc = IF IsFull(cache, max_size) THEN "evict" ELSE "insert",
                          !.key = k, !.data = data, !.ttl = ttl]]
    /\ UNCHANGED <<cacheVars, poolVars, redisVars, memoVars, callers, app>>

\* "self.cache.popitem(last=False)"; on a cache emptied meanwhile it raises
\* KeyError and the except clause returns False.
put_evict(t) ==
    /\ putters[t].pc = "evict"
    /\ IF cache = <<>>
       THEN /\ putters' = [putters EXCEPT ![t] = [IdlePutter EXCEPT !.ret = "False"]]
            /\ cache' = cache
       ELSE /\ putters' = [putters EXCEPT ![t].pc = "insert"]
            /\ cache' = PopItemFirst(cache)
    /\ UNCHANGED <<max_size, now, op, fill, poolVars, redisVars, memoVars, callers, app>>

\* "expires_at = time.time() + ttl; self.cache[key] = (data, expires_at);
\* return True"
put_insert(t) ==
    /\ putters[t].pc = "insert"
    /\ cache' = SetItem(cache, putters[t].key, putters[t].data,
                        now + NormalizeTtl(putters[t].ttl))
    /\ putters' = [putters EXCEPT ![t] = [IdlePutter EXCEPT !.ret = "True"]]
    /\ UNCHANGED <<max_size, now, op, fill, poolVars, redisVars, memoVars, callers, app>>

\* A call of get_cached_data that ends: the value returned.
GetReturns(t, value) ==
    putters' = [putters EXCEPT ![t] = [IdlePutter EXCEPT !.ret = value]]

\* "if key not in self.cache: return default"
get_check(t, k, default) ==
    /\ putters[t].pc = "idle"
    /\ IF k \notin KeysOf(cache)
       THEN GetReturns(t, default)
       ELSE putters' = [putters EXCEPT ![t] =
                           [IdlePutter EXCEPT !.pc = "read", !.key = k,
                                              !.default = default]]
    /\ UNCHANGED <<cacheVars, poolVars, redisVars, memoVars, callers, app>>

\* "data, expires_at = self.cache[key]"; on a key removed meanwhile it
\* raises KeyError and the except clause returns the default.
get_read(t) ==
    /\ putters[t].pc = "read"
    /\ IF putters[t].key \notin KeysOf(cache)
       THEN GetReturns(t, putters[t].default)
       ELSE putters' = [putters EXCEPT
                           ![t].pc = "test",
                           ![t].data = Lookup(cache, putters[t].key).data,
                           ![t].expires_at = Lookup(cache, putters[t].key).expires_at]
    /\ UNCHANGED <<cacheVars, poolVars, redisVars, memoVars, callers, app>>

\* "if time.time() > expires_at": on to the deletion, or "return data".
get_test(t) ==
    /\ putters[t].pc = "test"
    /\ IF IsExpired(now, putters[t].expires_at)
       THEN putters' = [putters EXCEPT ![t].pc = "del"]
       ELSE GetReturns(t, putters[t].data)
    /\ UNCHANGED <<cacheVars, poolVars, redisVars, memoVars, callers, app>>

\* "del self.cache[key]; return default": the entry the key has now is
\* deleted; on a key removed meanwhile KeyError, and the default all the same.
get_del(t) ==
    /\ putters[t].pc = "del"
    /\ cache' = IF putters[t].key \in KeysOf(cache)
                THEN DelItem(cache, putters[t].key) ELSE cache
    /\ GetReturns(t, putters[t].default)
    /\ UNCHANGED <<max_size, now, op, fill, poolVars, redisVars, memoVars, callers, app>>

PutCheck ==
    \E t \in Threads, k \in Keys, data \in {"v1"}, ttl \in IntTtls :
        put_check(t, k, data, ttl)
PutEvict == \E t \in Threads : put_evict(t)
PutInsert == \E t \in Threads : put_insert(t)
GetCheck == \E t \in Threads, k \in Keys : get_check(t, k, "None")
GetRead == \E t \in Threads : get_read(t)
GetTest == \E t \in Threads : get_test(t)
GetDel == \E t \in Threads : get_del(t)

PutNext ==
    \/ PutCheck \/ PutEvict \/ PutInsert
    \/ GetCheck \/ GetRead \/ GetTest \/ GetDel
    \/ Tick

\* No thread inside cache_data.
PutIdle == putters = [t \in Threads |-> IdlePutter]

----------------------------------------------------------------------------
(* ProxyManager.get_random_proxy called from concurrent threads, statement
   by statement: the code takes no lock, and a probe is network I/O during
   which the other threads run *)

\* Outcomes of the probes in the threaded runs: a success and a failure.
ThreadOutcomes == {"200", "503"}

IdleCaller == [pc |-> "idle", todo |-> <<>>, proxy |-> "-", current_time |-> 0,
               status |-> "-", ret |-> None]

\* A ProxyManager configured as the module-level proxy_manager is
\* (check_proxy_health=True, fake_useragent in use), as the constructor
\* leaves it on the proxy list it is given; no thread inside a call.
CallersInit ==
    /\ PoolInit
    /\ check_proxy_health
    /\ use_fake_ua
    /\ user_agents = DefaultAgents
    /\ \A i \in DOMAIN call.probes : call.probes[i].outcome \in ThreadOutcomes
    /\ callers = [t \in Threads |-> IdleCaller]

\* A call that ends: the value returned, or the exception raised.
Returned(status, ret) == [IdleCaller EXCEPT !.status = status, !.ret = ret]

\* "if not self.proxies: return None; current_time = datetime.now();
\* for proxy in list(self.unhealthy_proxies)": the copy of the unhealthy set
\* the loop will run over.
nx_start(t) ==
    /\ callers[t].pc = "idle"
    /\ callers' = [callers EXCEPT ![t] =
                      IF proxies = <<>> THEN Returned("ok", None)
                      ELSE [IdleCaller EXCEPT !.pc = "loop",
                                              !.todo = SetToSeq(unhealthy_proxies),
                                              !.current_time = clock]]
    /\ UNCHANGED <<poolVars, cacheVars, redisVars, memoVars, putters, app>>

\* The head of the loop: the next proxy of the copy is skipped unless it is
\* due, and probed if it is; at the end of the copy a proxy is chosen and
\* returned.
nx_loop(t) ==
    LET me == callers[t]
        cands == ProxyCandidates(proxies, healthy_proxies)
    IN  /\ me.pc = "loop"
        /\ IF me.todo = <<>>
           THEN \E pick \in (IF cands = {} THEN {"-"} ELSE cands) :
                   callers' = [callers EXCEPT ![t] =
                                  Returned("ok", ProxyReturn(cands, pick))]
           ELSE IF Head(me.todo) \in
                      DueForRecheck({Head(me.todo)}, proxy_health_checks, me.current_time)
                THEN callers' = [callers EXCEPT ![t].pc = "probing",
                                                ![t].proxy = Head(me.todo)]
                ELSE callers' = [callers EXCEPT ![t].todo = Tail(me.todo)]
        /\ UNCHANGED <<poolVars, cacheVars, redisVars, memoVars, putters, app>>

\* _check_proxy_health returns; after a success
\* "self.unhealthy_proxies.remove(proxy)", which raises KeyError if another
\* thread has removed the proxy meanwhile: the exception leaves the call.
nx_probe(t, outcome) ==
    LET me == callers[t]
    IN  /\ me.pc = "probing"
        /\ IF ~ProbeSucceeds(outcome)
           THEN /\ callers' = [callers EXCEPT ![t].pc = "stamp"]
                /\ UNCHANGED unhealthy_proxies
           ELSE IF me.proxy \notin unhealthy_proxies
                THEN /\ callers' = [callers EXCEPT ![t] = Returned("KeyError", None)]
                     /\ UNCHANGED unhealthy_proxies
                ELSE /\ callers' = [callers EXCEPT ![t].pc = "add"]
                     /\ unhealthy_proxies' = unhealthy_proxies \ {me.proxy}
        /\ UNCHANGED <<proxies, healthy_proxies, proxy_health_checks,
                       check_proxy_health, use_fake_ua, user_agents, clock, call,
                       cacheVars, redisVars, memoVars, putters, app>>

\* "self.healthy_proxies.add(proxy)"
nx_add(t) ==
    /\ callers[t].pc = "add"
    /\ healthy_proxies' = healthy_proxies \cup {callers[t].proxy}
    /\ callers' = [callers EXCEPT ![t].pc = "stamp"]
    /\ UNCHANGED <<proxies, unhealthy_proxies, proxy_health_checks,
                   check_proxy_health, use_fake_ua, user_agents, clock, call,
                   cacheVars, redisVars, memoVars, putters, app>>

\* "self.proxy_health_checks[proxy] = current_time", and on to the next
\* proxy of the copy.
nx_stamp(t) ==
    LET me == callers[t]
    IN  /\ me.pc = "stamp"
        /\ proxy_health_checks' =
              [p \in (DOMAIN proxy_health_checks) \cup {me.proxy} |->
                  IF p = me.proxy THEN me.current_time ELSE proxy_health_checks[p]]
        /\ callers' = [callers EXCEPT ![t].pc = "loop", ![t].proxy = "-",
                                      ![t].todo = Tail(me.todo)]
        /\ UNCHANGED <<proxies, healthy_proxies, unhealthy_proxies,
                       check_proxy_health, use_fake_ua, user_agents, clock, call,
                       cacheVars, redisVars, memoVars, putters, app>>

NxStart == \E t \in Threads : nx_start(t)
NxLoop == \E t \in Threads : nx_loop(t)
NxProbe == \E t \in Threads, outcome \in ThreadOutcomes : nx_probe(t, outcome)
NxAdd == \E t \in Threads : nx_add(t)
NxStamp == \E t \in Threads : nx_stamp(t)

CallersNext == NxStart \/ NxLoop \/ NxProbe \/ NxAdd \/ NxStamp \/ ClockTick

\* No thread inside get_random_proxy.
CallersIdle == callers = [t \in Threads |-> IdleCaller]

----------------------------------------------------------------------------
(* cache_response on a default_cache that is the RedisCache *)

\* What the wrapped function can return: also an object json cannot
\* serialize, as the response model of the dispensary endpoint is.
RedisComputeResults == ComputeResults \cup {"unserializable"}

\* cache_key, as a key of the server.
RedisCacheKey(args) == IF args = 1 THEN <<"a", "1">> ELSE <<"b", "1">>

RedisMemoInit ==
    /\ startup = SelectBackend(TRUE, "PONG")
    /\ rstore = EmptyStore
    /\ rop = NoRedisOp
    /\ \E ttl \in IntTtls : memo = [NoMemo EXCEPT !.ttl = ttl]
    /\ mcall = NoMemoCall

\* wrapper, up to "response = await func(*args, **kwargs)", on the
\* RedisCache: an exception that leaves get_cached_data leaves the wrapper.
redis_wrapper_begin(t, args, net) ==
    LET k == RedisCacheKey(args)
        r == RedisGetCachedDataResult(rstore, now, k, "None", net)
        calls == r.raised = "none" /\ ~IsCached(r.ret)
    IN  /\ memo.tasks[t].pc = "idle"
        /\ memo' = IF calls
                   THEN [memo EXCEPT !.tasks[t] =
                            [pc |-> "awaiting", key |-> args,
                             overlapped |-> InFlight(args) # {}]]
                   ELSE memo
        /\ mcall' = [name |-> "begin", task |-> t, key |-> args,
                     held |-> k \in LiveKeys(rstore, now),
                     stored |-> IF k \in LiveKeys(rstore, now)
                                THEN rstore[k].raw ELSE "-",
                     invoked |-> calls,
                     ret |-> IF r.raised = "none" /\ IsCached(r.ret)
                             THEN r.ret ELSE "-",
                     overlapped |-> InFlight(args) # {},
                     raised |-> r.raised]
        /\ UNCHANGED <<cacheVars, poolVars, redisVars, putters, callers, app>>

\* wrapper, from the return of the wrapped function, on the RedisCache: an
\* exception that leaves cache_data leaves the wrapper in place of the
\* response.
redis_wrapper_finish(t, response, net) ==
    LET k == RedisCacheKey(memo.tasks[t].key)
        r == RedisCacheDataResult(rstore, now, k, response, memo.ttl, net)
    IN  /\ memo.tasks[t].pc = "awaiting"
        /\ rstore' = r.store
        /\ memo' = [memo EXCEPT !.tasks[t] = IdleTask]
        /\ mcall' = [name |-> "finish", task |-> t, key |-> memo.tasks[t].key,
                     held |-> k \in LiveKeys(rstore, now),
                     stored |-> IF k \in LiveKeys(rstore, now)
                                THEN rstore[k].raw ELSE "-",
                     invoked |-> FALSE,
                     ret |-> IF r.raised = "none" THEN response ELSE "-",
                     overlapped |-> memo.tasks[t].overlapped,
                     raised |-> r.raised]
        /\ UNCHANGED <<startup, rop, cacheVars, poolVars, putters, callers, app>>

RedisWrapperBegin ==
    \E t \in Tasks, args \in MemoArgs, net \in NetOutcomes :
        redis_wrapper_begin(t, args, net)
RedisWrapperFinish ==
    \E t \in Tasks, response \in RedisComputeResults, net \in NetOutcomes :
        redis_wrapper_finish(t, response, net)

RedisMemoNext == RedisWrapperBegin \/ RedisWrapperFinish \/ Tick

----------------------------------------------------------------------------
(* main.py: the dispensary endpoint and the clear-cache endpoint, with Redis
   not enabled: the cache of main.py and the default_cache of cache.py are
   two InMemoryCache objects.  get_dispensary_data awaits nothing, so a
   request runs from the wrapper's lookup to the wrapper's return without
   another request in between *)

Urls == {"u1", "u2"}

\* What scrape_dispensary gives: pages with products, pages without any, or
\* nothing at all.
ScrapeOutcomes == {"products", "no_products", "nothing"}

\* timedelta(minutes=30), in seconds.
ThirtyMinutes == 1800

\* The ttl of the decorator and of the endpoint's own cache_data.
EndpointTtl == [kind |-> "timedelta", n |-> ThirtyMinutes * TicksPerSecond]

\* cache_key of wrapper: the function name and the keyword arguments of the
\* request; max_pages and include_metadata are left at their defaults.
RequestKey(url, force_refresh) == <<"get_dispensary_data", url, force_refresh>>

\* cache_key of the endpoint: f"dispensary:{dispensary_url}:{max_pages}"
DispensaryKey(url) == <<"dispensary", url>>

\* DispensaryResponse(url=..., products=..., timestamp=datetime.now(), ...)
DispensaryResponse(url, t, outcome) ==
    [url |-> url, timestamp |-> t, products |-> outcome = "products"]

NoRequest == [name |-> "none", url |-> "-", force_refresh |-> FALSE,
              pattern |-> "-", scraped |-> FALSE, status |-> "-",
              fresh |-> FALSE]

\* name: "dispensary" or "clear".  scraped: whether scrape_dispensary was
\* called.  status: "ok", "error" (an HTTPException), or for clear the
\* "status" of the reply.  fresh: whether the timestamp of the response
\* returned is the time of the request.
RequestRecord(name, url, force_refresh, pattern, scraped, status, fresh) ==
    [name |-> name, url |-> url, force_refresh |-> force_refresh,
     pattern |-> pattern, scraped |-> scraped, status |-> status,
     fresh |-> fresh]

AppInit ==
    /\ cache = <<>>
    /\ max_size = DefaultMaxSize
    /\ now = 0
    /\ op = NoOp
    /\ fill = <<>>
    /\ app = [cache |-> <<>>, request |-> NoRequest]

\* GET /dispensary/{url}: wrapper looks the request up in default_cache and
\* returns what it finds; else get_dispensary_data runs: unless force_refresh
\* it looks the url up in cache and returns what it finds; else it scrapes,
\* raises if nothing came back, and caches the response if it has products;
\* wrapper then stores the response it got in default_cache.
get_dispensary_data(url, force_refresh, outcome) ==
    LET wkey == RequestKey(url, force_refresh)
        ckey == DispensaryKey(url)
        memoHit == HoldsFresh(cache, now, wkey)
        dflt1 == GetCachedDataResult(cache, now, wkey, "None").cache
        cacheHit == ~force_refresh /\ HoldsFresh(app.cache, now, ckey)
        main1 == IF force_refresh THEN app.cache
                 ELSE GetCachedDataResult(app.cache, now, ckey, "None").cache
        scraped == ~memoHit /\ ~cacheHit
        failed == scraped /\ outcome = "nothing"
        response == IF memoHit THEN Lookup(cache, wkey).data
                    ELSE IF cacheHit THEN Lookup(app.cache, ckey).data
                    ELSE DispensaryResponse(url, now, outcome)
        main2 == IF scraped /\ outcome = "products"
                 THEN CacheDataResult(main1, DefaultMaxSize, now, ckey,
                                      response, EndpointTtl).cache
                 ELSE main1
    IN  /\ cache' = IF memoHit \/ failed THEN dflt1
                    ELSE StoreResponse(dflt1, max_size, now, wkey, response,
                                       EndpointTtl)
        /\ app' = [cache |-> IF memoHit THEN app.cache ELSE main2,
                   request |-> RequestRecord("dispensary", url, force_refresh,
                                   "-", scraped,
                                   IF failed THEN "error" ELSE "ok",
                                   ~failed /\ response.timestamp = now)]
        /\ UNCHANGED <<max_size, now, op, fill, poolVars, redisVars, memoVars,
                       putters, callers>>

\* POST /cache/clear: cache.clear_cache(pattern) on the cache of main.py.
clear_cache_endpoint(pattern) ==
    LET r == ClearCacheResult(app.cache, pattern)
    IN  /\ app' = [cache |-> r.cache,
                   request |-> RequestRecord("clear", "-", FALSE, pattern, FALSE,
                                   IF r.ret THEN "success" ELSE "error",
                                   FALSE)]
        /\ UNCHANGED <<cacheVars, poolVars, redisVars, memoVars, putters, callers>>

DispensaryRequest ==
    \E url \in Urls, force_refresh \in BOOLEAN, outcome \in ScrapeOutcomes :
        get_dispensary_data(url, force_refresh, outcome)
ClearRequest == \E pattern \in {"*", "dispensary:u1:*"} : clear_cache_endpoint(pattern)

AppNext == DispensaryRequest \/ ClearRequest \/ Tick

\* No request answered.
AppIdle == app = [cache |-> <<>>, request |-> NoRequest]

----------------------------------------------------------------------------
(* The specifications: the components share no state but the clock *)

CacheStart == PoolIdle /\ RedisIdle /\ MemoIdle /\ PutIdle /\ CallersIdle /\ AppIdle /\ CacheInit

PoolStart == CacheIdle /\ RedisIdle /\ MemoIdle /\ PutIdle /\ CallersIdle /\ AppIdle /\ PoolInit

RedisStart == CacheIdle /\ PoolIdle /\ MemoIdle /\ PutIdle /\ CallersIdle /\ AppIdle /\ RedisInit

MemoStart == PoolIdle /\ RedisIdle /\ PutIdle /\ CallersIdle /\ AppIdle /\ MemoInit

PutStart == PoolIdle /\ RedisIdle /\ MemoIdle /\ CallersIdle /\ AppIdle /\ PutInit

RedisMemoStart == CacheIdle /\ PoolIdle /\ PutIdle /\ CallersIdle /\ AppIdle /\ RedisMemoInit

\* A ProxyManager with the user-agent generator available.
PoolLiveStart == PoolStart /\ use_fake_ua

CallersStart == CacheIdle /\ RedisIdle /\ MemoIdle /\ PutIdle /\ AppIdle /\ CallersInit

AppStart == PoolIdle /\ RedisIdle /\ MemoIdle /\ PutIdle /\ CallersIdle /\ AppInit

CacheSpec == CacheStart /\ [][CacheNext]_vars

PoolSpec == PoolStart /\ [][PoolNext]_vars

RedisSpec == RedisStart /\ [][RedisNext]_vars

MemoSpec == MemoStart /\ [][MemoNext]_vars

PutSpec == PutStart /\ [][PutNext]_vars

CallersSpec == CallersStart /\ [][CallersNext]_vars

RedisMemoSpec == RedisMemoStart /\ [][RedisMemoNext]_vars

AppSpec == AppStart /\ [][AppNext]_vars

\* next() keeps being called and time keeps passing.
PoolLiveSpec ==
    /\ PoolLiveStart
    /\ [][PoolLiveNext]_vars
    /\ WF_vars(get_request_metadata)
    /\ WF_vars(ClockTick)
    /\ WF_vars(ClockShift)

Init == CacheInit /\ PoolInit /\ RedisInit /\ MemoIdle /\ PutIdle /\ CallersIdle /\ AppIdle

Next == CacheNext \/ PoolNext \/ RedisNext \/ MemoNext \/ PutNext \/ CallersNext

Spec == Init /\ [][Next]_vars

----------------------------------------------------------------------------
(* Claims about the in-process store *)

\* The ttl of a put as the claims count it, in ticks: a duration counts as
\* its whole seconds.
WholeSecondTicks(ttl) ==
    IF ttl.kind = "timedelta"
    THEN (RequestedTicks(ttl) \div TicksPerSecond) * TicksPerSecond
    ELSE RequestedTicks(ttl)

\* A step that is a get of the key a successful put with ttl > 0 has just
\* stored, no operation in between, not later than `deadline` ticks after it.
GetRightAfterPut(deadline) ==
    /\ op.name = "put"
    /\ op.ret = "True"
    /\ RequestedTicks(op.ttl) > 0
    /\ op'.name = "get"
    /\ op'.key = op.key
    /\ now <= op.at + deadline

\* C1 as stated: a successful put(k, v, ttl), ttl > 0, immediately followed
\* by get(k, d) not later than the put instant + ttl, returns v.
C1_GetWithinRequestedTtl ==
    [][GetRightAfterPut(RequestedTicks(op.ttl)) => op'.ret = op.arg]_vars

\* C1 as amended: a successful put(k, v, ttl), ttl > 0, immediately followed
\* by get(k, d) not later than the put instant + ttl, where a ttl given as a
\* duration counts as its whole seconds (truncated), returns v.
C1_GetWithinWholeSecondTtl ==
    [][GetRightAfterPut(WholeSecondTicks(op.ttl)) => op'.ret = op.arg]_vars

\* A get right after a successful put of its key has returned the value put.
C1_Witness ==
    /\ op.name = "get"
    /\ op.afterPut
    /\ op.held /\ ~op.expired
    /\ op.ret \in Values

\* C2: a get(k, d) issued later than the entry's expires_at returns d and
\* removes the entry; a get of a key the store does not hold returns its
\* default, and a key enters the store only by a put of that key.
C2_ExpiredEntryRemovedForGood ==
    /\ [](op.name = "get" /\ op.expired
            => op.ret = op.arg /\ op.key \notin KeysOf(cache))
    /\ [](op.name = "get" /\ ~op.held => op.ret = op.arg)
    /\ [][\A k \in Keys :
            k \notin KeysOf(cache) /\ k \in KeysOf(cache')
                => op'.name = "put" /\ op'.key = k]_vars

\* A get has found its key expired and returned the default.
C2_Witness ==
    /\ op.name = "get"
    /\ op.held /\ op.expired
    /\ op.ret = op.arg
    /\ op.key \notin KeysOf(cache)

\* C3: the number of entries held is at most the configured capacity, and no
\* key is held twice.
C3_SizeAtMostCapacity ==
    /\ Len(cache) <= max_size
    /\ Cardinality(KeysOf(cache)) = Len(cache)

\* A put of a new key into a store that was at capacity has succeeded.
C3_Witness ==
    /\ op.name = "put"
    /\ op.ret = "True"
    /\ ~op.held
    /\ max_size >= 1
    /\ op.size = max_size
    /\ Len(cache) = max_size

\* C4: capacity N >= 1, N+1 distinct keys put in order into an empty store:
\* exactly N entries are left, the first key put is absent and the others
\* are present, in the order put, with their values; a get of the first
\* returns the default and a get of an unexpired other one its value.
C4_FirstInsertedEvicted ==
    (fill # Tainted /\ max_size >= 1 /\ Len(fill) = max_size + 1) =>
        /\ Len(cache) = max_size
        /\ fill[1].key \notin KeysOf(cache)
        /\ GetCachedDataResult(cache, now, fill[1].key, "None").ret = "None"
        /\ \A i \in 1 .. max_size :
              /\ cache[i].key = fill[i + 1].key
              /\ cache[i].data = fill[i + 1].data
              /\ ~IsExpired(now, cache[i].expires_at)
                    => GetCachedDataResult(cache, now, cache[i].key, "None").ret
                         = fill[i + 1].data

\* Capacity 2 and three distinct keys put: the last two are held, unexpired.
C4_Witness ==
    /\ fill # Tainted
    /\ max_size = 2
    /\ Len(fill) = 3
    /\ \A i \in 1 .. Len(cache) : ~IsExpired(now, cache[i].expires_at)
    /\ KeysOf(cache) = {fill[2].key, fill[3].key}

\* C12: in the in-process store, clear(pattern) returns success for any
\* pattern and leaves no entry, so that right after it get(k, d) returns d for
\* every key k, those present before included.
C12_ClearRemovesEverything ==
    op.name = "clear" =>
        /\ op.ret = "True"
        /\ cache = <<>>
        /\ \A k \in Keys, d \in Defaults :
               GetCachedDataResult(cache, now, k, d).ret = d

\* A clear with a pattern other than "*" has run on a cache that held
\* entries.
C12_Witness ==
    /\ op.name = "clear"
    /\ op.arg = "a*"
    /\ op.size > 0

\* The last operation was a successful put on a key the store already held.
PutOnHeldKey == op.name = "put" /\ op.ret = "True" /\ op.held

\* The entry of the key of the last put is the one that put has written,
\* with the given life in ticks, and a get at the instant of the put
\* returns its value.
EntryIsLastPut(life) ==
    /\ op.key \in KeysOf(cache)
    /\ Lookup(cache, op.key).data = op.arg
    /\ Lookup(cache, op.key).expires_at = op.at + life
    /\ GetCachedDataResult(cache, op.at, op.key, "None").ret = op.arg

\* C24 as stated: put(k, v2, ttl2) on a store that holds an entry for k
\* replaces the entry as a whole: get(k) returns v2 and the expiry is the
\* instant of the put + ttl2.
C24_OverwriteReplacesEntry ==
    PutOnHeldKey => EntryIsLastPut(RequestedTicks(op.ttl))

\* C24 as amended: the same, where a ttl2 given as a duration counts as its
\* whole seconds (truncated).
C24_OverwriteReplacesEntryWholeSeconds ==
    PutOnHeldKey => EntryIsLastPut(WholeSecondTicks(op.ttl))

\* A put has overwritten a key whose entry had expired already and was
\* still held.
C24_Witness ==
    /\ PutOnHeldKey
    /\ op.expired
    /\ Lookup(cache, op.key).expires_at > now

\* C25: whatever form the ttl of a put is given in, the expiry of the entry
\* written lies a whole number of seconds after the instant of the put.
C25_ExpiryWholeSeconds ==
    (op.name = "put" /\ op.ret = "True") =>
        (Lookup(cache, op.key).expires_at - op.at) % TicksPerSecond = 0

\* A step of cache_data.
PutStep == op'.name = "put" /\ now' = now

\* The entries of keys other than k that the step removes.
RemovedOthers(k) == {e \in Range(cache) : e.key # k /\ e \notin Range(cache')}

\* The step evicts the first (oldest-inserted) entry and no other: it is
\* gone, or, when it is the entry of the key put, the key is inserted anew
\* at the end.
EvictsOldestOnly(k) ==
    /\ cache # <<>>
    /\ RemovedOthers(k) = {e \in {cache[1]} : e.key # k}
    /\ cache[1].key = k => cache'[Len(cache')].key = k
    /\ Len(cache') = Len(Tail(cache)) + (IF k \in KeysOf(Tail(cache)) THEN 0 ELSE 1)

\* The step evicts nothing.
EvictsNothing(k) ==
    /\ RemovedOthers(k) = {}
    /\ cache' # <<>> /\ k \in KeysOf(cache) =>
           IndexOf(cache', k) = IndexOf(cache, k)
    /\ Len(cache') <= Len(cache) + 1

\* C31 as stated: a put evicts if and only if the store holds capacity-many
\* entries before the insertion; it then evicts exactly one entry, the
\* oldest-inserted one, whatever the expiry times are.
C31_EvictsOldestAtCapacity ==
    [][PutStep =>
          IF Len(cache) = max_size
          THEN EvictsOldestOnly(op'.key)
          ELSE EvictsNothing(op'.key)]_vars

\* C31 as amended: the same for a capacity of at least 1; with capacity 0
\* there is no entry to evict, the put fails and stores nothing.
C31_EvictsOldestAtCapacityFromOne ==
    [][PutStep =>
          IF max_size = 0
          THEN cache' = <<>> /\ op'.ret = "False"
          ELSE IF Len(cache) = max_size
               THEN EvictsOldestOnly(op'.key) /\ op'.ret = "True"
               ELSE EvictsNothing(op'.key) /\ op'.ret = "True"]_vars

\* A put of a new key at capacity has evicted an entry that was not expired
\* and has left an entry that was expired already.
C31_Witness ==
    /\ op.name = "put" /\ op.ret = "True"
    /\ ~op.held
    /\ op.size = max_size
    /\ op.evictedLive
    /\ \E i \in 1 .. Len(cache) :
           cache[i].key # op.key /\ IsExpired(op.at, cache[i].expires_at)

\* A step that is a get hit or an overwriting put: its key was held, and for
\* a get not expired.
TouchStep ==
    /\ now' = now
    /\ \/ op'.name = "get" /\ op'.held /\ ~op'.expired
       \/ op'.name = "put" /\ op'.held

\* C32: neither a get hit on key k nor an overwriting put of key k changes
\* k's position in the eviction order: k is still held, and it is before
\* (after) every other key still held that it was before (after).
C32_TouchKeepsEvictionOrder ==
    [][TouchStep =>
          LET k == op'.key
          IN  /\ k \in KeysOf(cache')
              /\ \A j \in (KeysOf(cache) \cap KeysOf(cache')) \ {k} :
                     (IndexOf(cache, k) < IndexOf(cache, j))
                         <=> (IndexOf(cache', k) < IndexOf(cache', j))]_vars

\* The keys held whose entry is past its expires_at.
ExpiredKeys == {k \in KeysOf(cache) : IsExpired(now, Lookup(cache, k).expires_at)}

\* C33: lazy expiry.  The passing of time removes nothing; a key whose entry
\* has expired stays in the store until a get of that key, a delete of that
\* key, a clear, or the eviction by a put at capacity removes it; it counts
\* toward capacity, so that a put of a new key at capacity evicts the oldest
\* entry, live or not, while expired entries remain.
C33_LazyExpiry ==
    /\ [][now' # now => cache' = cache]_vars
    /\ [][\A k \in ExpiredKeys :
             k \notin KeysOf(cache') =>
                 \/ op'.name \in {"get", "delete"} /\ op'.key = k
                 \/ op'.name = "clear"
                 \/ /\ op'.name = "put" /\ op'.key # k
                    /\ Len(cache) = max_size
                    /\ cache[1].key = k]_vars
    /\ [][(PutStep /\ max_size >= 1 /\ Len(cache) = max_size
               /\ op'.key \notin KeysOf(cache))
            => /\ cache[1].key \notin KeysOf(cache')
               /\ \A k \in ExpiredKeys \ {cache[1].key} : k \in KeysOf(cache')]_vars

\* A put at capacity has evicted an entry that was not expired, and the
\* store still holds, at capacity, an entry that is.
C33_Witness ==
    /\ op.name = "put" /\ op.evictedLive
    /\ now = op.at
    /\ max_size >= 1 /\ Len(cache) = max_size
    /\ ExpiredKeys # {}

\* C36: a put on a key that is already present changes only that key's
\* entry: every other entry held before the put is held afterwards, with the
\* same value and expiry, also when the store holds capacity-many entries.
C36_OverwriteChangesOnlyItsKey ==
    [][(PutStep /\ op'.held) => RemovedOthers(op'.key) = {}]_vars

----------------------------------------------------------------------------
(* Claims about the networked store and the selection of the backend *)

\* C11: on both backends delete(k) returns success whether or not k was
\* present; stated for the networked backend with the server answering: every
\* delete returns True, and a delete of an absent key changes nothing.
C11_DeleteAlwaysSucceeds ==
    (rop.name = "delete" /\ rop.net = "ok") =>
        /\ rop.ret = "True"
        /\ (~rop.held => ~rop.changed)

\* C13: on both backends put never raises; stated for the networked backend:
\* no exception leaves cache_data, and a put that does not return True has
\* left the key space as it was.
C13_PutNeverRaises ==
    rop.name = "put" =>
        /\ rop.raised = "none"
        /\ (rop.ret # "True" => ~rop.changed)

\* C14: on both backends get never raises; stated for the networked backend:
\* no exception leaves get_cached_data, and a read that fails (a backend
\* error, a stored value that cannot be decoded) returns the default.
C14_GetNeverRaises ==
    rop.name = "get" =>
        /\ rop.raised = "none"
        /\ (rop.net # "ok" => rop.ret = rop.arg)

\* C15: when the networked backend is configured and the ping of its
\* constructor fails for any reason, the import does not fail and
\* default_cache is the in-process backend; when it is not configured, the
\* in-process backend is selected and no connection is attempted.
C15_FallbackOnAnyPingFailure ==
    /\ (startup.use_redis /\ startup.ping # "PONG") =>
           (startup.raised = "none" /\ startup.backend = "memory")
    /\ ~startup.use_redis =>
           (startup.backend = "memory" /\ ~startup.attempted)

----------------------------------------------------------------------------
(* Claims about the in-process store under concurrent callers *)

\* C18: in every interleaving of the statements of concurrent puts (capacity
\* test, eviction, insertion) the number of entries never exceeds the
\* capacity.
C18_ConcurrentPutsWithinCapacity ==
    Len(cache) <= max_size

----------------------------------------------------------------------------
(* Claims about cache_response *)

\* C16: for every value the wrapped function can return, a call whose key
\* has a present, unexpired entry returns the stored value without calling
\* the wrapped function; a call whose key has no such entry calls it, and
\* when it returns, its result is stored under the key with the ttl of the
\* decorator and returned.
C16_MemoizeEveryResult ==
    /\ mcall.name = "begin" =>
           IF mcall.held
           THEN ~mcall.invoked /\ mcall.ret = mcall.stored
           ELSE mcall.invoked
    /\ mcall.name = "finish" =>
           /\ mcall.key \in KeysOf(cache)
           /\ Lookup(cache, mcall.key).data = mcall.ret
           /\ Lookup(cache, mcall.key).expires_at = now + NormalizeTtl(memo.ttl)

\* C17: no single-flight.  A call that starts while another call of the same
\* key is suspended inside the wrapped function, and finds nothing stored,
\* calls the wrapped function too; and every call that returns from the
\* wrapped function stores its result, replacing what the key held.
C17_NoSingleFlight ==
    /\ (mcall.name = "begin" /\ mcall.overlapped /\ ~mcall.held) => mcall.invoked
    /\ mcall.name = "finish" =>
           /\ mcall.key \in KeysOf(cache)
           /\ Lookup(cache, mcall.key).data = mcall.ret

\* A call that started while another call of its key was suspended has
\* returned from the wrapped function and has replaced the result stored
\* meanwhile by a different one.
C17_Witness ==
    /\ mcall.name = "finish"
    /\ mcall.overlapped
    /\ mcall.held
    /\ mcall.stored # mcall.ret

\* C28: a cache failure never turns a memoized call into an error: no
\* exception leaves the wrapper, and a call whose wrapped function has
\* returned returns its response, whatever the lookup and the store did.
C28_CacheFailuresAbsorbed ==
    mcall.name \in {"begin", "finish"} =>
        /\ mcall.raised = "none"
        /\ mcall.name = "finish" => mcall.ret # "-"

----------------------------------------------------------------------------
(* Claims about the proxy pool *)

\* The dict returned by the last next().
Bundle == call.bundle[1]

\* The egress path of the last next(): the proxy address handed out.
EgressPath == Bundle.proxies[1].http

ReturnedOk == call.name = "next" /\ call.status = "ok" /\ call.bundle # None

\* The last probe of proxy p made during the last call failed.
LastProbeFailed(p) ==
    \E i \in DOMAIN call.probes :
        /\ call.probes[i].proxy = p
        /\ ~ProbeSucceeds(call.probes[i].outcome)
        /\ \A j \in DOMAIN call.probes :
              j > i => call.probes[j].proxy # p

\* C5: when some identity is Healthy once the re-probe step of next() has
\* finished, the egress path returned is the address of a Healthy identity
\* and not that of an Unhealthy one.
C5_HealthyIdentityReturned ==
    (call.name = "next" /\ healthy_proxies # {}) =>
        /\ ReturnedOk
        /\ Bundle.proxies # None
        /\ EgressPath \in healthy_proxies
        /\ EgressPath \notin unhealthy_proxies

\* C6: when no identity is Healthy and the pool is not empty, next() returns
\* the address of a member of the pool; every identity it probed, and with
\* health checking enabled the one it returns, is Unhealthy afterwards.
C6_DegradeToAnyProxy ==
    (call.name = "next" /\ healthy_proxies = {} /\ proxies # <<>>) =>
        /\ ReturnedOk
        /\ Bundle.proxies # None
        /\ EgressPath \in Range(proxies)
        /\ \A i \in DOMAIN call.probes :
              call.probes[i].proxy \in unhealthy_proxies
        /\ check_proxy_health => EgressPath \in unhealthy_proxies

\* Pool [p1] whose probe has just failed again: next() has returned p1, and
\* p1 is Unhealthy.
C6_Witness ==
    /\ ReturnedOk
    /\ proxies = <<"p1">>
    /\ healthy_proxies = {}
    /\ Len(call.probes) = 1
    /\ LastProbeFailed("p1")
    /\ Bundle.proxies = Some(ProxyDict("p1"))
    /\ unhealthy_proxies = {"p1"}

\* C7: next() on an empty pool returns a bundle with a header set and no
\* egress path, and makes no probe.
C7_EmptyPoolNoEgressPath ==
    (call.name = "next" /\ proxies = <<>>) =>
        /\ ReturnedOk
        /\ "headers" \in DOMAIN Bundle
        /\ DOMAIN Bundle.headers # {}
        /\ Bundle.proxies = None
        /\ call.probes = <<>>

\* next() has returned on an empty pool.
C7_Witness ==
    /\ ReturnedOk
    /\ proxies = <<>>
    /\ Bundle.proxies = None
    /\ Bundle.headers["Accept-Language"] = "en-US,en;q=0.5"

\* C8: in every pool state next() returns, without an error, a bundle with a
\* headers entry and an egress-path entry, whose headers hold a non-empty
\* User-Agent.
C8_BundleAlwaysReturned ==
    call.name = "next" =>
        /\ ReturnedOk
        /\ {"headers", "proxies"} \subseteq DOMAIN Bundle
        /\ "User-Agent" \in DOMAIN Bundle.headers
        /\ Bundle.headers["User-Agent"] # ""

\* next() has returned a bundle with health checking disabled, the fallback
\* list in use and a proxy configured.
C8_Witness ==
    /\ ReturnedOk
    /\ ~check_proxy_health
    /\ ~use_fake_ua
    /\ user_agents = DefaultAgents
    /\ proxies # <<>>
    /\ Bundle.headers["User-Agent"] \in Range(DefaultAgents)

\* C9: a failed probe, at construction or inside next(), is not raised to
\* the caller, and the identity probed is Unhealthy, and not Healthy,
\* after it.
C9_FailedProbeLeavesUnhealthy ==
    call.name \in {"init", "next"} =>
        /\ call.status = "ok"
        /\ \A p \in Addrs :
              LastProbeFailed(p) =>
                  p \in unhealthy_proxies /\ p \notin healthy_proxies

\* C10: with health checking enabled, every identity of the pool is in
\* exactly one of the Healthy set and the Unhealthy set.
C10_ExactlyOneHealthState ==
    check_proxy_health =>
        \A p \in Range(proxies) :
            (p \in healthy_proxies) # (p \in unhealthy_proxies)

\* C19: under concurrent next() calls, in every interleaving of their
\* statements, no identity is in both the Healthy and the Unhealthy set.
C19_NeverHealthyAndUnhealthy ==
    healthy_proxies \cap unhealthy_proxies = {}

\* C20: a next() call demotes no identity (every identity Healthy before it
\* is Healthy after it), and probes no identity that is Healthy.
C20_HealthyStaysAndIsNotProbed ==
    [][get_request_metadata =>
          /\ healthy_proxies \subseteq healthy_proxies'
          /\ \A i \in DOMAIN call'.probes :
                 call'.probes[i].proxy \notin healthy_proxies]_vars

\* A step that is a next(): the clock stands still and the call recorded
\* after it is a next().
NextStep == call'.name = "next" /\ clock' = clock

\* The call a step makes has probed proxy p.
ProbedByStep(p) == \E i \in DOMAIN call'.probes : call'.probes[i].proxy = p

\* C21: next() on a non-empty pool re-probes an Unhealthy identity if and
\* only if its last check is absent or older than the recheck interval; a
\* successful re-probe moves it to Healthy within the call, a failed one
\* leaves it Unhealthy, and in both cases its last check becomes the time of
\* the call; an identity that is not re-probed keeps its state and its last
\* check.
C21_RecheckPolicy ==
    [][(NextStep /\ proxies # <<>>) =>
          \A p \in unhealthy_proxies :
              /\ ProbedByStep(p) <=>
                     \/ p \notin DOMAIN proxy_health_checks
                     \/ clock - proxy_health_checks[p] > RecheckInterval
              /\ ProbedByStep(p) =>
                     /\ p \in DOMAIN proxy_health_checks'
                     /\ proxy_health_checks'[p] = clock
                     /\ \A i \in DOMAIN call'.probes :
                            call'.probes[i].proxy = p =>
                                IF ProbeSucceeds(call'.probes[i].outcome)
                                THEN p \in healthy_proxies' /\ p \notin unhealthy_proxies'
                                ELSE p \in unhealthy_proxies'
              /\ ~ProbedByStep(p) =>
                     /\ p \in unhealthy_proxies'
                     /\ p \in DOMAIN proxy_health_checks'
                     /\ proxy_health_checks'[p] = proxy_health_checks[p]]_vars

\* A next() issued more than the recheck interval after construction has
\* re-probed an identity with success: it is Healthy only, checked now.
C21_Witness ==
    /\ call.name = "next"
    /\ clock > RecheckInterval
    /\ \E i \in DOMAIN call.probes :
           /\ ProbeSucceeds(call.probes[i].outcome)
           /\ call.probes[i].proxy \in healthy_proxies
           /\ call.probes[i].proxy \notin unhealthy_proxies
           /\ proxy_health_checks[call.probes[i].proxy] = clock

\* C22: no identity is excluded for good.  If next() keeps being called as
\* time passes and from some point on no probe of identity p fails, then p,
\* whenever it is Unhealthy, is Healthy and no longer Unhealthy some time
\* later.
C22_UnhealthyEventuallyHealthy ==
    \A p \in Addrs :
        (<>[](~LastProbeFailed(p))) =>
            ((p \in unhealthy_proxies) ~>
                (p \in healthy_proxies /\ p \notin unhealthy_proxies))

\* An identity found Unhealthy at construction has been re-probed with
\* success by a next() issued after the clock of the model has reached its
\* bound, and is Healthy only.
C22_Witness ==
    /\ call.name = "next"
    /\ clock = MaxClock
    /\ \E i \in DOMAIN call.probes :
           /\ ProbeSucceeds(call.probes[i].outcome)
           /\ call.probes[i].proxy \in healthy_proxies
           /\ call.probes[i].proxy \notin unhealthy_proxies
           /\ proxy_health_checks[call.probes[i].proxy] = clock

\* C23: when a custom user-agent list is configured, the User-Agent header
\* of every bundle returned by next() is a member of that list.
C23_CustomUserAgentUsed ==
    (ReturnedOk /\ user_agents # DefaultAgents) =>
        Bundle.headers["User-Agent"] \in Range(user_agents)

\* A probe outcome that is a 2xx response.
Is2xx(outcome) == outcome \in {"200", "204"}

\* C26: after a call, an identity whose latest probe in the call got a 2xx
\* response is Healthy, and one whose latest probe got any other response,
\* timed out or failed is Unhealthy.
C26_ProbeOutcomeDecidesState ==
    \A i \in DOMAIN call.probes :
        (\A j \in DOMAIN call.probes :
            j > i => call.probes[j].proxy # call.probes[i].proxy) =>
                IF Is2xx(call.probes[i].outcome)
                THEN call.probes[i].proxy \in healthy_proxies
                ELSE call.probes[i].proxy \in unhealthy_proxies

\* C27: with health checking disabled no probe is ever made, the Healthy
\* and the Unhealthy set stay empty, and every next() on a non-empty pool
\* returns the address of a member of the pool.
C27_NothingProbedWhenDisabled ==
    ~check_proxy_health =>
        /\ call.probes = <<>>
        /\ healthy_proxies = {}
        /\ unhealthy_proxies = {}
        /\ (call.name = "next" /\ proxies # <<>>) =>
               /\ ReturnedOk
               /\ Bundle.proxies # None
               /\ EgressPath \in Range(proxies)

\* With health checking disabled, next() has returned the second proxy of
\* a pool of two, none of them ever probed.
C27_Witness ==
    /\ ~check_proxy_health
    /\ ReturnedOk
    /\ proxies = <<"p1", "p2">>
    /\ Bundle.proxies = Some(ProxyDict("p2"))
    /\ DOMAIN proxy_health_checks = {}

\* A step of clear_cache whose commands the server has answered.
ClearStep == rop'.name = "clear" /\ rop'.net = "ok" /\ now' = now

\* C29: on the networked store, clear(pattern) on a reachable server removes
\* every key that matches the glob pattern, leaves every key that does not
\* match with its value and its expiry, and returns True, also when no key
\* matches.
C29_ClearRemovesExactlyMatches ==
    [][ClearStep =>
          /\ rop'.ret = "True"
          /\ rop'.raised = "none"
          /\ \A k \in LiveKeys(rstore, now) :
                 IF GlobMatch(rop'.key, k)
                 THEN k \notin LiveKeys(rstore', now')
                 ELSE k \in LiveKeys(rstore', now') /\ rstore'[k] = rstore[k]
          /\ LiveKeys(rstore', now') \subseteq LiveKeys(rstore, now)]_vars

C29_Witness ==
    /\ rop.name = "clear" /\ rop.net = "ok" /\ rop.key = <<"a", "*">>
    /\ rop.held /\ rop.ret = "True"
    /\ <<"a", "1">> \notin LiveKeys(rstore, now)
    /\ <<"b", "1">> \in LiveKeys(rstore, now)

\* No element occurs twice in the sequence.
NoDuplicates(seq) == \A i, j \in 1 .. Len(seq) : seq[i] = seq[j] => i = j

\* C30: the pool has set semantics: an address configured more than once is
\* held once, and a probing round (construction, reconfiguration) probes it
\* once.
C30_PoolHoldsAddressOnce ==
    /\ NoDuplicates(proxies)
    /\ call.name \in {"init", "reconfigure"} =>
           NoDuplicates([i \in 1 .. Len(call.probes) |-> call.probes[i].proxy])

----------------------------------------------------------------------------
(* Claims about the endpoints of main.py *)

\* C34: every dispensary request with force_refresh = true invokes the
\* scraper and, unless it fails, returns data fetched by that request, also
\* when an identical request was answered less than the ttl ago.
C34_ForceRefreshAlwaysScrapes ==
    (app.request.name = "dispensary" /\ app.request.force_refresh) =>
        /\ app.request.scraped
        /\ app.request.status = "ok" => app.request.fresh

\* C35: after the clear-cache endpoint has returned success with pattern
\* "*", no response cached earlier is served: the next dispensary request
\* invokes the scraper.
C35_NothingServedAfterClear ==
    [][(/\ app.request.name = "clear"
        /\ app.request.pattern = "*"
        /\ app.request.status = "success"
        /\ app'.request.name = "dispensary") => app'.request.scraped]_vars

----------------------------------------------------------------------------
(* Claims about concurrent callers *)

\* The step is the deletion by which thread t ends a get.
DelStep(t) == putters[t].pc = "del" /\ putters'[t].pc = "idle"

\* C37: a put that returned success is never undone by a concurrent get: the
\* deletion of a get that has found the entry of its key expired removes no
\* entry that is not expired, so a fresh entry put meanwhile stays.
C37_GetNeverRemovesFreshEntry ==
    [][\A t \in Threads :
          (DelStep(t) /\ putters[t].key \in KeysOf(cache)
              /\ ~IsExpired(now, Lookup(cache, putters[t].key).expires_at))
            => /\ putters[t].key \in KeysOf(cache')
               /\ Lookup(cache', putters[t].key) = Lookup(cache, putters[t].key)]_vars

\* C38: concurrent next() calls never raise: in every interleaving of the
\* statements of two callers, a call that has ended has returned, and has
\* not raised an exception.
C38_ConcurrentNextNeverRaises ==
    \A t \in Threads : callers[t].status \in {"-", "ok"}

\* C39: once the pool has been reconfigured with a new proxy list, the
\* Healthy and Unhealthy sets hold only addresses of that list, and the
\* egress path a later next() returns is an address of that list.  Before a
\* reconfiguration the sets hold addresses of the constructor's list only.
C39_OnlyAddressesOfCurrentList ==
    /\ (healthy_proxies \cup unhealthy_proxies) \subseteq Range(proxies)
    /\ (ReturnedOk /\ Bundle.proxies # None) => EgressPath \in Range(proxies)

\* C40: an identity is probed at most once per recheck interval: a next()
\* issued less than the interval after a probe that found an identity
\* Unhealthy, at construction (time 0) or in the next() before (the time
\* stamped for the identity), does not probe that identity.
C40_ProbedOncePerInterval ==
    [][(NextStep /\ call.name \in {"init", "next"}) =>
          \A i \in DOMAIN call.probes :
              LET p == call.probes[i].proxy
                  probed_at == IF call.name = "init" THEN 0
                               ELSE proxy_health_checks[p]
              IN  (/\ ~ProbeSucceeds(call.probes[i].outcome)
                   /\ p \in unhealthy_proxies
                   /\ clock - probed_at < RecheckInterval)
                    => ~ProbedByStep(p)]_vars

====
